---- MODULE Spec2Model ----
(***************************************************************************)
(* Verification model of the notebooks and the .qmod file of the library.  *)
(*                                                                         *)
(* Part I   (SpecQ): the quantum functions the notebooks declare, flattened *)
(*          to gate sequences and run on an exact state vector.            *)
(* Part II  (SpecNB): the notebooks as linear scripts of cells that bind    *)
(*          names in the kernel namespace and call the remote service.     *)
(* Part III (SpecSwap): the post-processing cells of the swap-test         *)
(*          notebook over every possible measurement outcome.              *)
(* Part IV  (SpecST): the swap test on pairs of amplitude vectors.         *)
(* Part V   (SpecQPE): the phase estimation examples and their measured    *)
(*          outcomes.                                                      *)
(***************************************************************************)
EXTENDS Integers, Sequences, FiniteSets, TLC

VARIABLES
    prog,       \* which quantum function is being run
    input,      \* the computational basis state it was started on
    gates,      \* the function flattened to its gate sequence
    qpc,        \* index of the next gate of the flattened function
    amp,        \* state vector: basis index -> nonzero integer amplitude
    nrm,        \* the amplitudes are divided by sqrt(2)^nrm
    gphase,     \* number of global phases e^{i*pi} applied by U, modulo 2
    allocd,     \* qubits currently allocated
    released,   \* qubits released by an inverted allocate
    dirty,      \* TRUE once a qubit was released while not in |0>
    known,      \* FALSE once an external state preparation made amp unknown
    parsed_counts, \* measured outcome -> number of shots that gave it
    nb,         \* which notebook is being run
    pc,         \* index of the next statement of the notebook
    ns,         \* names bound in the kernel namespace
    outstanding,\* remote requests sent and not yet answered
    status,     \* "running" or "error"
    errkind,    \* what raised: "remote", "name", "key", "assert"; or "none"
    log,        \* the events of the run so far
    counts0,    \* <<c>>: the execute result has counts["0"] = c; <<>>: none
    radicand    \* <<d>>: overlap_from_swap_test = sqrt(d / NUM_SHOTS)

qvars ==
    <<prog, input, gates, qpc, amp, nrm, gphase, allocd, released, dirty, known,
      parsed_counts>>

nbvars == <<nb, pc, ns, outstanding, status, errkind, log, counts0, radicand>>

vars == <<qvars, nbvars>>

(***************************************************************************)
(* Part I.  Registers.                                                     *)
(***************************************************************************)

\* phase_kickback.ipynb: main allocates x with 4 qubits; target is one more.
PK_NUM_QUBITS == 4
PK_TARGET == PK_NUM_QUBITS

\* QMCI notebook: io has sp_num_qubits qubits, ind is one more.
sp_num_qubits == 3
QMCI_IND == sp_num_qubits

\* whitebox_fuzzing.qmod: x and y have 6 qubits each, aux is one more.
WB_NUM_QUBITS == 6
WB_AUX == 2 * WB_NUM_QUBITS

Pow2(n) == 2 ^ n

Bit(k, q) == (k \div Pow2(q)) % 2

Flip(k, q) == IF Bit(k, q) = 1 THEN k - Pow2(q) ELSE k + Pow2(q)

\* Value of the n-qubit unsigned register that starts at qubit q0.
RegVal(k, q0, n) == (k \div Pow2(q0)) % Pow2(n)

(***************************************************************************)
(* Classical predicates of the oracles, on a basis index k.                *)
(***************************************************************************)

\* phase_kickback.ipynb: target ^= x == 0
pk_x_eq_1(k) == RegVal(k, 0, PK_NUM_QUBITS) = 1

pk_x_eq_0(k) == RegVal(k, 0, PK_NUM_QUBITS) = 0

\* QMCI: control(x == 0, ...)
qmci_x_eq_0(k) == RegVal(k, 0, sp_num_qubits) = 0

\* whitebox_fuzzing.qmod: ((x + y) < 9) and (((x * y) % 4) == 1)
my_predicate(k) ==
    LET x == RegVal(k, 0, WB_NUM_QUBITS)
        y == RegVal(k, WB_NUM_QUBITS, WB_NUM_QUBITS)
    IN  (x + y < 9) /\ ((x * y) % 4 = 1)

\* whitebox_fuzzing.qmod: {x, y} -> joined; control (joined == 0)
zero_predicate(k) == RegVal(k, 0, 2 * WB_NUM_QUBITS) = 0

Pred(p, k) ==
    CASE p = "pk_x_eq_0"      -> pk_x_eq_0(k)
      [] p = "qmci_x_eq_0"    -> qmci_x_eq_0(k)
      [] p = "my_predicate"   -> my_predicate(k)
      [] p = "zero_predicate" -> zero_predicate(k)
      [] OTHER                -> FALSE

(***************************************************************************)
(* Gates on the sparse state vector.                                       *)
(***************************************************************************)

Amp(a, k) == IF k \in DOMAIN a THEN a[k] ELSE 0

Basis(k) == [j \in {k} |-> 1]

GateX(a, q) == [k \in {Flip(j, q) : j \in DOMAIN a} |-> a[Flip(k, q)]]

GateZ(a, q) == [k \in DOMAIN a |-> IF Bit(k, q) = 1 THEN 0 - a[k] ELSE a[k]]

\* Unnormalised Hadamard: |0> -> |0> + |1>, |1> -> |0> - |1>.
GateH(a, q) ==
    LET D == DOMAIN a \cup {Flip(j, q) : j \in DOMAIN a}
        v(k) == IF Bit(k, q) = 0
                THEN Amp(a, k) + Amp(a, Flip(k, q))
                ELSE Amp(a, Flip(k, q)) - Amp(a, k)
    IN  [k \in {j \in D : v(j) # 0} |-> v(k)]

GateFlipAlways(a, q, p) == [k \in {Flip(j, q) : j \in DOMAIN a} |-> a[Flip(k, q)]]

\* Flip qubit q on the basis states where predicate p holds.
GateFlipIf(a, q, p) ==
    LET to(j) == IF Pred(p, j) THEN Flip(j, q) ELSE j
    IN  [k \in {to(j) : j \in DOMAIN a} |-> a[to(k)]]

GateNeg(a) == [k \in DOMAIN a |-> 0 - a[k]]

RECURSIVE Reduce(_, _)
\* Cancel common factors of 2 against the normalisation sqrt(2)^n.
Reduce(a, n) ==
    IF n >= 2 /\ DOMAIN a # {} /\ \A k \in DOMAIN a : a[k] % 2 = 0
    THEN Reduce([k \in DOMAIN a |-> a[k] \div 2], n - 2)
    ELSE <<a, n>>

(***************************************************************************)
(* Flattening of quantum functions to gate sequences.                      *)
(***************************************************************************)

\* A gate g on qubit q (n qubits for allocate), with predicate p if any.
Op(g, q, n, p) ==
    [g |-> g, q |-> q, n |-> n, p |-> p, inv |-> FALSE,
     role |-> <<>>, path |-> <<>>]

Tag(ops, r) == [i \in 1..Len(ops) |-> [ops[i] EXCEPT !.role = <<r>> \o @]]

Call(name, ops) ==
    [i \in 1..Len(ops) |-> [ops[i] EXCEPT !.path = <<name>> \o @]]

InvertNoReverse(ops) == [i \in 1..Len(ops) |-> [ops[i] EXCEPT !.inv = ~@]]

\* invert: the gates in reverse order, each one inverted.
invert(ops) ==
    [i \in 1..Len(ops) |-> [ops[Len(ops) + 1 - i] EXCEPT !.inv = ~@]]

within_apply_no_uncompute(compute, action) ==
    Tag(compute, "compute") \o Tag(action, "action")

\* within_apply: compute(), action(), invert(compute()).
within_apply(compute, action) ==
    Tag(compute, "compute") \o Tag(action, "action")
        \o Tag(invert(compute), "uncompute")

hadamard_transform(q0, n) ==
    Call("hadamard_transform", [i \in 1..n |-> Op("H", q0 + i - 1, 1, "")])

(* phase_kickback.ipynb *)

prepare_minus(target) ==
    Call("prepare_minus",
         <<Op("allocate", target, 1, ""), Op("X", target, 1, ""),
           Op("H", target, 1, "")>>)

oracle_function(target) ==
    Call("oracle_function", <<Op("xor", target, 1, "pk_x_eq_0")>>)

oracle_phase_kickback ==
    Call("oracle_phase_kickback",
         within_apply(prepare_minus(PK_TARGET), oracle_function(PK_TARGET)))

pk_main ==
    Call("main",
         <<Op("allocate", 0, PK_NUM_QUBITS, "")>>
             \o hadamard_transform(0, PK_NUM_QUBITS)
             \o oracle_phase_kickback)

(* whitebox_fuzzing.qmod *)

prep_minus(out) ==
    Call("prep_minus",
         <<Op("allocate", out, 1, ""), Op("X", out, 1, ""),
           Op("H", out, 1, "")>>)

wb_my_predicate(res) ==
    Call("my_predicate", <<Op("xor", res, 1, "my_predicate")>>)

wb_zero_predicate(res) ==
    Call("zero_predicate", <<Op("control_X", res, 1, "zero_predicate")>>)

my_oracle(predicate) ==
    Call("my_oracle", within_apply(prep_minus(WB_AUX), predicate))

(* QMCI notebook *)

qmci_prepare_plus(q) == Call("prepare_minus", <<Op("H", q, 1, "")>>)

qmci_prepare_minus(q) ==
    Call("prepare_minus", <<Op("X", q, 1, ""), Op("H", q, 1, "")>>)

zero_oracle(ind) ==
    Call("zero_oracle",
         within_apply(qmci_prepare_minus(ind),
                      <<Op("control_X", ind, 1, "qmci_x_eq_0")>>))

load_probabilities ==
    Call("load_probabilities", <<Op("inplace_prepare_state", 0, sp_num_qubits, "")>>)

amplitude_loading(ind) ==
    Call("amplitude_loading", <<Op("linear_pauli_rotations", ind, 1, "")>>)

state_loading(ind) ==
    Call("state_loading", load_probabilities \o amplitude_loading(ind))

good_state_oracle(ind) == Call("good_state_oracle", <<Op("Z", ind, 1, "")>>)

my_grover_operator_diffuser_first ==
    Call("my_grover_operator",
         within_apply(invert(state_loading(QMCI_IND)), zero_oracle(QMCI_IND))
             \o good_state_oracle(QMCI_IND)
             \o <<Op("U", QMCI_IND, 1, "")>>)

my_grover_operator ==
    Call("my_grover_operator",
         good_state_oracle(QMCI_IND)
             \o within_apply(invert(state_loading(QMCI_IND)),
                             zero_oracle(QMCI_IND))
             \o <<Op("U", QMCI_IND, 1, "")>>)

\* main of the cell that shows my_grover_operator: the two allocate calls,
\* then my_grover_operator (bind only renames the wires).
qmci_main_allocate ==
    <<Op("allocate", 0, sp_num_qubits, ""), Op("allocate", QMCI_IND, 1, "")>>

qmci_grover_main == Call("main", qmci_main_allocate \o my_grover_operator)

\* No notebook is running while a quantum function is analysed.
NBIdle ==
    /\ nb = "none" /\ pc = 0 /\ ns = {} /\ outstanding = 0
    /\ status = "idle" /\ errkind = "none" /\ log = <<>>
    /\ counts0 = <<>> /\ radicand = <<>>

(***************************************************************************)
(* The runs: a quantum function, the basis states it is started on, and    *)
(* the qubits already allocated by its caller.                             *)
(***************************************************************************)

Programs ==
    {"pk_main", "oracle_phase_kickback", "oracle_function", "zero_oracle",
     "qmci_grover_main", "my_oracle_predicate", "my_oracle_zero"}

Gates(p) ==
    CASE p = "pk_main"               -> pk_main
      [] p = "oracle_phase_kickback" -> oracle_phase_kickback
      [] p = "oracle_function"       -> oracle_function(PK_TARGET)
      [] p = "zero_oracle"           -> zero_oracle(QMCI_IND)
      [] p = "qmci_grover_main"      -> qmci_grover_main
      [] p = "my_oracle_predicate"   -> my_oracle(wb_my_predicate(WB_AUX))
      [] p = "my_oracle_zero"        -> my_oracle(wb_zero_predicate(WB_AUX))

Inputs(p) ==
    CASE p = "pk_main"               -> {0}
      [] p = "oracle_phase_kickback" -> 0..(Pow2(PK_NUM_QUBITS) - 1)
      [] p = "oracle_function"       -> 0..(Pow2(PK_NUM_QUBITS + 1) - 1)
      [] p = "zero_oracle"           -> 0..(Pow2(sp_num_qubits + 1) - 1)
      [] p = "qmci_grover_main"      -> {0}
      [] p = "my_oracle_predicate"   -> 0..(Pow2(2 * WB_NUM_QUBITS) - 1)
      [] p = "my_oracle_zero"        -> 0..(Pow2(2 * WB_NUM_QUBITS) - 1)

Preallocated(p) ==
    CASE p = "pk_main"               -> {}
      [] p = "oracle_phase_kickback" -> 0..(PK_NUM_QUBITS - 1)
      [] p = "oracle_function"       -> 0..PK_NUM_QUBITS
      [] p = "zero_oracle"           -> 0..sp_num_qubits
      [] p = "qmci_grover_main"      -> {}
      [] p = "my_oracle_predicate"   -> 0..(2 * WB_NUM_QUBITS - 1)
      [] p = "my_oracle_zero"        -> 0..(2 * WB_NUM_QUBITS - 1)

QInit ==
    /\ prog \in Programs
    /\ input \in Inputs(prog)
    /\ gates = Gates(prog)
    /\ qpc = 1
    /\ amp = Basis(input)
    /\ nrm = 0
    /\ gphase = 0
    /\ allocd = Preallocated(prog)
    /\ released = {}
    /\ dirty = FALSE
    /\ known = TRUE
    /\ parsed_counts = <<>>
    /\ NBIdle

Running == qpc <= Len(gates)

Done == qpc = Len(gates) + 1

Cur == gates[qpc]

Qubits(op) == op.q..(op.q + op.n - 1)

\* Every basis state of the vector has qubit q at 0.
InZero(a, q) == \A k \in DOMAIN a : Bit(k, q) = 0

Advance == /\ qpc' = qpc + 1
           /\ UNCHANGED <<prog, input, gates, nbvars, parsed_counts>>

StepAllocate ==
    /\ Running /\ Cur.g = "allocate" /\ ~Cur.inv
    /\ Qubits(Cur) \cap allocd = {}
    /\ allocd' = allocd \cup Qubits(Cur)
    /\ Advance
    /\ UNCHANGED <<amp, nrm, gphase, released, dirty, known>>

\* The inverse of allocate releases the qubits, which must be back in |0>.
StepRelease ==
    /\ Running /\ Cur.g = "allocate" /\ Cur.inv
    /\ Qubits(Cur) \subseteq allocd
    /\ allocd' = allocd \ Qubits(Cur)
    /\ released' = released \cup Qubits(Cur)
    /\ dirty' = (dirty \/ \E q \in Qubits(Cur) : ~InZero(amp, q))
    /\ Advance
    /\ UNCHANGED <<amp, nrm, gphase, known>>

StepX ==
    /\ Running /\ Cur.g = "X" /\ Cur.q \in allocd
    /\ amp' = GateX(amp, Cur.q)
    /\ Advance
    /\ UNCHANGED <<nrm, gphase, allocd, released, dirty, known>>

StepH ==
    /\ Running /\ Cur.g = "H" /\ Cur.q \in allocd
    /\ LET r == Reduce(GateH(amp, Cur.q), nrm + 1)
       IN  amp' = r[1] /\ nrm' = r[2]
    /\ Advance
    /\ UNCHANGED <<gphase, allocd, released, dirty, known>>

StepZ ==
    /\ Running /\ Cur.g = "Z" /\ Cur.q \in allocd
    /\ amp' = GateZ(amp, Cur.q)
    /\ Advance
    /\ UNCHANGED <<nrm, gphase, allocd, released, dirty, known>>

\* U(0, 0, 0, pi, q): the identity with the global phase e^{i*pi} = -1.
StepU ==
    /\ Running /\ Cur.g = "U" /\ Cur.q \in allocd
    /\ amp' = GateNeg(amp)
    /\ gphase' = (gphase + 1) % 2
    /\ Advance
    /\ UNCHANGED <<nrm, allocd, released, dirty, known>>

\* res ^= <predicate>
StepXorAssign ==
    /\ Running /\ Cur.g = "xor" /\ Cur.q \in allocd
    /\ amp' = GateFlipIf(amp, Cur.q, Cur.p)
    /\ Advance
    /\ UNCHANGED <<nrm, gphase, allocd, released, dirty, known>>

\* control(<predicate>, X(q))
StepControlX ==
    /\ Running /\ Cur.g = "control_X" /\ Cur.q \in allocd
    /\ amp' = GateFlipIf(amp, Cur.q, Cur.p)
    /\ Advance
    /\ UNCHANGED <<nrm, gphase, allocd, released, dirty, known>>

\* inplace_prepare_state and linear_pauli_rotations load irrational
\* amplitudes computed by the external library: the vector is not tracked
\* past them.
StepExternal ==
    /\ Running /\ Cur.g \in {"inplace_prepare_state", "linear_pauli_rotations"}
    /\ Qubits(Cur) \subseteq allocd
    /\ amp' = <<>>
    /\ known' = FALSE
    /\ Advance
    /\ UNCHANGED <<nrm, gphase, allocd, released, dirty>>

QNext ==
    \/ StepAllocate
    \/ StepRelease
    \/ StepX
    \/ StepH
    \/ StepZ
    \/ StepU
    \/ StepXorAssign
    \/ StepControlX
    \/ StepExternal

SpecQ == QInit /\ [][QNext]_vars

(***************************************************************************)
(* Properties of the quantum functions.                                    *)
(***************************************************************************)

Executed == SubSeq(gates, 1, qpc - 1)

\* The vector with the single basis state k and amplitude s.
Ket(k, s) == [j \in {k} |-> s]

\* C1: phase kickback. Started on a basis value x, oracle_phase_kickback
\* returns |x> with amplitude -1 when x = 0 and +1 otherwise; main ends in
\* the uniform superposition of the 16 values of x (target at 0), with a
\* minus sign on the state 0 only and equal magnitudes 1/sqrt(2)^4.
C1_KickbackSign ==
    /\ (prog = "oracle_phase_kickback" /\ Done) =>
           /\ nrm = 0
           /\ amp = Ket(input, IF input = 0 THEN 0 - 1 ELSE 1)
    /\ (prog = "pk_main" /\ Done) =>
           /\ nrm = PK_NUM_QUBITS
           /\ DOMAIN amp = 0..(Pow2(PK_NUM_QUBITS) - 1)
           /\ \A k \in DOMAIN amp : amp[k] = IF k = 0 THEN 0 - 1 ELSE 1

C1_Witness ==
    /\ prog = "pk_main" /\ Done
    /\ Amp(amp, 0) = 0 - 1
    /\ Amp(amp, Pow2(PK_NUM_QUBITS) - 1) = 1

WithinApplyPrograms ==
    {"oracle_phase_kickback", "zero_oracle", "my_oracle_predicate", "my_oracle_zero"}

\* The auxiliary qubit the compute block of the function allocates, if any.
ComputeAllocates(p) ==
    CASE p = "oracle_phase_kickback" -> {PK_TARGET}
      [] p = "my_oracle_predicate"   -> {WB_AUX}
      [] p = "my_oracle_zero"        -> {WB_AUX}
      [] OTHER                       -> {}

RoleRank(op) ==
    CASE op.role[1] = "compute"   -> 1
      [] op.role[1] = "action"    -> 2
      [] op.role[1] = "uncompute" -> 3

Bare(op) == <<op.g, op.q, op.n, op.p, op.inv>>

OfRole(ops, r) == SelectSeq(ops, LAMBDA op : op.role[1] = r)

\* C2: within_apply(compute, action) runs compute, then action, then the
\* inverse of compute (the compute gates in reverse order, each inverted),
\* and the qubit compute allocated stays allocated through the three steps
\* and is released, back in |0>, once the third has run.
C2_WithinApplyOrder ==
    prog \in WithinApplyPrograms =>
        /\ \A i, j \in 1..(qpc - 1) :
               i < j => RoleRank(gates[i]) <= RoleRank(gates[j])
        /\ \A q \in ComputeAllocates(prog) :
               /\ (qpc > 1 /\ ~Done) => q \in allocd
               /\ q \in released => Done
        /\ Done =>
               LET c == OfRole(gates, "compute")
                   u == OfRole(gates, "uncompute")
               IN  /\ OfRole(gates, "action") # <<>>
                   /\ Len(u) = Len(c)
                   /\ \A i \in 1..Len(c) :
                          Bare(u[i]) = Bare([c[Len(c) + 1 - i] EXCEPT !.inv = ~@])
                   /\ ComputeAllocates(prog) \cap allocd = {}
                   /\ ComputeAllocates(prog) \subseteq released
                   /\ ~dirty

C2_Witness ==
    /\ prog = "my_oracle_zero" /\ Done /\ input = 0
    /\ WB_AUX \in released

\* C3: the auxiliary qubit of oracle_phase_kickback (target) and of
\* my_oracle (aux) is back in |0> when the function returns, for every
\* input, marked or not, and it is never released in another state.
C3_AuxBackInZero ==
    /\ prog \in {"pk_main", "oracle_phase_kickback"} =>
           /\ ~dirty
           /\ Done => InZero(amp, PK_TARGET) /\ PK_TARGET \in released
    /\ prog \in {"my_oracle_predicate", "my_oracle_zero"} =>
           /\ ~dirty
           /\ Done => InZero(amp, WB_AUX) /\ WB_AUX \in released

C3_Witness ==
    /\ prog = "oracle_phase_kickback" /\ Done /\ input = 0
    /\ PK_TARGET \in released /\ amp = Ket(0, 0 - 1)

\* C4: oracle_function maps |x>|t> to |x>|t XOR (x == 0)>: the target is
\* flipped exactly when x = 0 and x keeps its value.
C4_XorOracle ==
    (prog = "oracle_function" /\ Done) =>
        LET x == input % Pow2(PK_NUM_QUBITS)
            t == input \div Pow2(PK_NUM_QUBITS)
            f == IF x = 0 THEN 1 ELSE 0
        IN  /\ nrm = 0
            /\ amp = Ket(x + Pow2(PK_NUM_QUBITS) * ((t + f) % 2), 1)

C4_Witness ==
    /\ prog = "oracle_function" /\ Done
    /\ input = Pow2(PK_NUM_QUBITS)
    /\ amp = Ket(0, 1)

\* The stages of the Grover operator in the order the notebook lists them.
GroverStages ==
    <<good_state_oracle(QMCI_IND), invert(state_loading(QMCI_IND)),
      zero_oracle(QMCI_IND), state_loading(QMCI_IND),
      <<Op("U", QMCI_IND, 1, "")>>>>

\* The stage (1..5) the i-th gate of the listed stages belongs to.
StageAt(i) ==
    LET upto(s) == IF s = 0 THEN 0
                   ELSE Len(GroverStages[1]) + (IF s >= 2 THEN Len(GroverStages[2]) ELSE 0)
                        + (IF s >= 3 THEN Len(GroverStages[3]) ELSE 0)
                        + (IF s >= 4 THEN Len(GroverStages[4]) ELSE 0)
                        + (IF s >= 5 THEN Len(GroverStages[5]) ELSE 0)
    IN  CHOOSE s \in 1..5 : upto(s - 1) < i /\ i <= upto(s)

GroverListed ==
    GroverStages[1] \o GroverStages[2] \o GroverStages[3] \o GroverStages[4]
        \o GroverStages[5]

\* The gates of my_grover_operator follow the allocations of main.
GroverOffset == Len(qmci_main_allocate)

\* C5: my_grover_operator applies good_state_oracle, the inverse of
\* state_loading, zero_oracle, state_loading and then the phase gate U, in
\* this order; stages 2-4 are the compute, action and uncompute blocks of
\* one within_apply, stage 1 and U are outside it, and U contributes the
\* global phase -1 (the factors of -S_psi1 A^dagger S_0 A, read in the order
\* of application).
C5_GroverStages ==
    prog = "qmci_grover_main" =>
        /\ Len(gates) = GroverOffset + Len(GroverListed)
        /\ \A i \in 1..Len(GroverListed) :
               i + GroverOffset < qpc =>
                   LET op == gates[i + GroverOffset]
                   IN  /\ Bare(op) = Bare(GroverListed[i])
                       /\ op.path[2] = "my_grover_operator"
                       /\ StageAt(i) = 1 => op.role = <<>>
                       /\ StageAt(i) = 2 => op.role[1] = "compute"
                       /\ StageAt(i) = 3 => op.role[1] = "action"
                       /\ StageAt(i) = 4 => op.role[1] = "uncompute"
                       /\ StageAt(i) = 5 => op.role = <<>>
        /\ gphase = (IF Done THEN 1 ELSE 0)

C5_Witness ==
    /\ prog = "qmci_grover_main" /\ Done
    /\ gphase = 1 /\ ~known

\* C6: zero_oracle is the reflection around |0>_n|0>: the basis state with
\* x = 0 and ind = 0 gets the factor -1 and every other basis state of
\* (x, ind) is returned unchanged, for both values of ind on entry.
C6_ZeroReflection ==
    (prog = "zero_oracle" /\ Done) =>
        /\ nrm = 0
        /\ amp = Ket(input, IF input = 0 THEN 0 - 1 ELSE 1)

C6_Witness ==
    /\ prog = "zero_oracle" /\ Done
    /\ input = Pow2(sp_num_qubits)
    /\ amp = Ket(Pow2(sp_num_qubits), 1)

(***************************************************************************)
(* Part II.  The notebooks as scripts.                                     *)
(*                                                                         *)
(* A notebook is the sequence of the statements of its code cells. A       *)
(* statement reads names of the kernel namespace and binds names in it;    *)
(* synthesize, show and execute(...).result() are round trips to the       *)
(* remote service. Nothing in the notebooks catches an exception.          *)
(***************************************************************************)

\* Statement of cell c: kind "local", "remote" or "assert".
S(c, kind, op, reads, binds) ==
    [cell |-> c, kind |-> kind, op |-> op, reads |-> reads, binds |-> binds]

\* Quantum Monte Carlo Integration notebook.
qmci_notebook ==
    <<S(1, "local", "import", {}, {"classiq", "plt"}),
      S(2, "local", "import", {}, {"np"}),
      S(2, "local", "assign", {"np"},
        {"sp_num_qubits", "probabilities", "slope", "offset"}),
      S(2, "local", "def", {"classiq"},
        {"load_probabilities", "amplitude_loading", "state_loading"}),
      S(3, "local", "def", {"classiq"}, {"main"}),
      S(3, "local", "create_model",
        {"classiq", "main", "state_loading", "load_probabilities",
         "amplitude_loading", "probabilities", "slope", "offset", "sp_num_qubits"},
        {"model"}),
      S(3, "remote", "synthesize", {"classiq", "model"}, {"qprog"}),
      S(3, "remote", "show", {"classiq", "qprog"}, {}),
      S(4, "local", "def", {"classiq"}, {"good_state_oracle"}),
      S(5, "local", "def", {"classiq"}, {"prepare_minus", "zero_oracle"}),
      S(6, "local", "def", {"classiq"}, {"my_grover_operator"}),
      S(7, "local", "def", {"classiq"}, {"main"}),
      S(7, "local", "create_model",
        {"classiq", "main", "my_grover_operator", "good_state_oracle",
         "zero_oracle", "prepare_minus", "state_loading", "load_probabilities",
         "amplitude_loading", "probabilities", "slope", "offset",
         "sp_num_qubits", "np"},
        {"model"}),
      S(7, "remote", "synthesize", {"classiq", "model"}, {"qprog"}),
      S(7, "remote", "show", {"classiq", "qprog"}, {}),
      S(8, "local", "assign", {}, {"n_qpe"}),
      S(8, "local", "def", {"classiq"}, {"main"}),
      S(8, "local", "create_model",
        {"classiq", "main", "my_grover_operator", "good_state_oracle",
         "zero_oracle", "prepare_minus", "state_loading", "load_probabilities",
         "amplitude_loading", "probabilities", "slope", "offset",
         "sp_num_qubits", "np", "n_qpe"},
        {"model"}),
      S(8, "local", "set_constraints", {"classiq", "model"}, {"model"}),
      S(8, "remote", "synthesize", {"classiq", "model"}, {"qprog"}),
      S(8, "remote", "show", {"classiq", "qprog"}, {}),
      S(9, "local", "write_qmod", {"model"}, {}),
      S(10, "remote", "execute", {"classiq", "qprog"}, {"res"}),
      S(11, "local", "assign", {"res"}, {"phases_counts"}),
      S(12, "local", "plot", {"plt", "phases_counts"}, {}),
      S(13, "local", "print", {"np", "phases_counts", "probabilities"}, {})>>

\* Swap test notebook.
swap_test_notebook ==
    <<S(1, "local", "import", {}, {"np"}),
      S(1, "local", "assign", {"np"}, {"NUM_QUBITS", "amps1", "amps2"}),
      S(2, "local", "import", {}, {"classiq"}),
      S(2, "local", "def", {"classiq"}, {"main"}),
      S(2, "local", "create_model", {"classiq", "main", "amps1", "amps2"}, {"qmod"}),
      S(2, "local", "set_execution_preferences", {"classiq", "qmod"}, {"qmod"}),
      S(2, "remote", "synthesize", {"classiq", "qmod"}, {"qprog"}),
      S(3, "remote", "show", {"qprog"}, {}),
      S(4, "local", "write_qmod", {"qmod"}, {}),
      S(5, "remote", "execute", {"classiq", "qprog"}, {"res"}),
      S(6, "local", "overlap", {"np", "res"}, {"overlap_from_swap_test"}),
      S(6, "local", "assign", {"np", "amps1", "amps2"}, {"exact_overlap"}),
      S(7, "local", "print", {"overlap_from_swap_test", "exact_overlap"}, {}),
      S(8, "local", "assign", {}, {"RTOL"}),
      S(8, "assert", "isclose",
        {"np", "overlap_from_swap_test", "exact_overlap", "RTOL"}, {})>>

\* Option pricing notebook.
option_pricing_notebook ==
    <<S(1, "local", "assign", {}, {"num_qubits", "mu", "sigma", "log_normal_model"}),
      S(2, "local", "assign", {}, {"threshold", "condition", "finance_function"}),
      S(3, "local", "construct_finance_model",
        {"log_normal_model", "finance_function"}, {"qmod"}),
      S(4, "local", "write_qmod", {"qmod"}, {}),
      S(5, "remote", "synthesize", {"qmod"}, {"qprog"}),
      S(5, "remote", "show", {"qprog"}, {}),
      S(6, "remote", "execute", {"qprog"}, {"results"}),
      S(7, "local", "print", {"results"}, {})>>

\* Phase kickback notebook (cells numbered by their execution count).
phase_kickback_notebook ==
    <<S(2, "local", "def", {}, {"prepare_minus"}),
      S(9, "local", "def", {}, {"oracle_function"}),
      S(10, "local", "def", {}, {"oracle_phase_kickback"}),
      S(11, "local", "def", {}, {"main"}),
      S(11, "local", "create_model",
        {"main", "oracle_phase_kickback", "oracle_function", "prepare_minus"},
        {"qmod"}),
      S(11, "remote", "synthesize", {"qmod"}, {"qprog"}),
      S(11, "remote", "show", {"qprog"}, {}),
      S(12, "local", "def", {},
        {"prepare_minus", "oracle_function", "oracle_phase_kickback", "main"}),
      S(12, "local", "create_model",
        {"main", "oracle_phase_kickback", "oracle_function", "prepare_minus"},
        {"qmod"}),
      S(12, "remote", "synthesize", {"qmod"}, {"qprog"}),
      S(12, "remote", "show", {"qprog"}, {}),
      S(12, "local", "write_qmod", {"qmod"}, {})>>

\* MCX notebook.
mcx_notebook ==
    <<S(1, "local", "import", {}, {"classiq", "pi"}),
      S(2, "local", "def", {"classiq"}, {"my_mcx"}),
      S(3, "local", "def", {"classiq"}, {"main"}),
      S(4, "local", "create_model", {"classiq", "main", "my_mcx"}, {"model"}),
      S(5, "local", "assign", {"classiq"}, {"constraints"}),
      S(5, "local", "set_constraints", {"classiq", "model", "constraints"}, {"model"}),
      S(5, "local", "write_qmod", {"model"}, {}),
      S(6, "remote", "synthesize", {"classiq", "model"}, {"qprog"}),
      S(6, "remote", "show", {"classiq", "qprog"}, {}),
      S(7, "local", "from_qprog", {"classiq", "qprog"}, {"circuit"}),
      S(7, "local", "print", {"circuit"}, {}),
      S(8, "local", "create_model", {"classiq", "main", "my_mcx"}, {"model"}),
      S(8, "local", "assign", {"classiq"}, {"constraints", "preferences"}),
      S(8, "local", "set_constraints", {"classiq", "model", "constraints"}, {"model"}),
      S(8, "local", "set_preferences", {"classiq", "model", "preferences"}, {"model"}),
      S(8, "local", "write_qmod", {"model"}, {}),
      S(8, "remote", "synthesize", {"classiq", "model"}, {"qprog"}),
      S(8, "local", "from_qprog", {"classiq", "qprog"}, {"circuit"}),
      S(8, "local", "print", {"circuit"}, {}),
      S(8, "remote", "show", {"circuit"}, {}),
      S(9, "local", "create_model", {"classiq", "main", "my_mcx"}, {"model"}),
      S(9, "local", "assign", {"classiq"}, {"constraints", "preferences"}),
      S(9, "local", "set_constraints", {"classiq", "model", "constraints"}, {"model"}),
      S(9, "local", "set_preferences", {"classiq", "model", "preferences"}, {"model"}),
      S(9, "local", "write_qmod", {"model"}, {}),
      S(9, "remote", "synthesize", {"classiq", "model"}, {"qprog"}),
      S(9, "local", "from_qprog", {"classiq", "qprog"}, {"circuit"}),
      S(9, "local", "print", {"circuit"}, {}),
      S(9, "remote", "show", {"circuit"}, {}),
      S(10, "local", "def", {"classiq"}, {"main"}),
      S(10, "local", "create_model", {"classiq", "main", "my_mcx"}, {"model"}),
      S(10, "local", "write_qmod", {"model"}, {}),
      S(10, "remote", "synthesize", {"classiq", "model"}, {"qprog"}),
      S(10, "remote", "show", {"classiq", "qprog"}, {})>>

\* QPE examples notebook.
qpe_notebook ==
    <<S(1, "local", "assign", {}, {"QPE_RESOLUTION"}),
      S(1, "local", "def", {}, {"main"}),
      S(1, "local", "create_model", {"main", "QPE_RESOLUTION"}, {"qmod"}),
      S(2, "local", "write_qmod", {"qmod"}, {}),
      S(2, "remote", "synthesize", {"qmod"}, {"qprog"}),
      S(3, "remote", "execute", {"qprog"}, {"res"}),
      S(3, "local", "print", {"res"}, {}),
      S(4, "local", "assign", {}, {"QPE_RESOLUTION", "HAMILTONIAN"}),
      S(4, "local", "def", {}, {"main"}),
      S(4, "local", "create_model", {"main", "QPE_RESOLUTION", "HAMILTONIAN"}, {"qmod"}),
      S(5, "local", "write_qmod", {"qmod"}, {}),
      S(5, "remote", "synthesize", {"qmod"}, {"qprog"}),
      S(6, "remote", "execute", {"qprog"}, {"res"}),
      S(6, "local", "print", {"res"}, {})>>

\* Amplitude loading example notebook.
amplitude_loading_notebook ==
    <<S(1, "local", "assign", {}, {"VAR_SIZE"}),
      S(1, "local", "def", {}, {"main"}),
      S(1, "local", "create_model", {"main", "VAR_SIZE"}, {"qmod"}),
      S(2, "local", "write_qmod", {"qmod"}, {}),
      S(2, "remote", "synthesize", {"qmod"}, {"qprog"})>>

Notebooks ==
    {"qmci", "swap_test", "option_pricing", "phase_kickback", "mcx", "qpe",
     "amplitude_loading"}

Script(n) ==
    CASE n = "qmci"              -> qmci_notebook
      [] n = "swap_test"         -> swap_test_notebook
      [] n = "option_pricing"    -> option_pricing_notebook
      [] n = "phase_kickback"    -> phase_kickback_notebook
      [] n = "mcx"               -> mcx_notebook
      [] n = "qpe"               -> qpe_notebook
      [] n = "amplitude_loading" -> amplitude_loading_notebook

(***************************************************************************)
(* The swap-test post-processing, in exact integer arithmetic.             *)
(***************************************************************************)

\* ExecutionPreferences(num_shots=100_000)
NUM_SHOTS == 100000

\* exact_overlap = np.abs(amps1 @ amps2) with np.random.seed(12), as the
\* notebook prints it, in units of 10^-8.
EXACT_OVERLAP_E8 == 46972037

\* RTOL = 0.05, in percent.
RTOL_PERCENT == 5

\* np.isclose: atol keeps its default 1e-08, in units of 10^-8.
ATOL_E8 == 1

E8 == 10 ^ 8

\* Naturals beyond the machine word: little-endian digits in base 10^4.
Base == 10 ^ 4

RECURSIVE Carry(_, _)
Carry(s, c) ==
    IF s = <<>>
    THEN IF c = 0 THEN <<>> ELSE <<c % Base>> \o Carry(<<>>, c \div Base)
    ELSE <<(s[1] + c) % Base>> \o Carry(Tail(s), (s[1] + c) \div Base)

Big(n) == Carry(<<n>>, 0)

RECURSIVE Coef(_, _, _, _)
Coef(a, b, k, i) ==
    IF i = 0 THEN 0
    ELSE (IF (k + 1 - i) \in 1..Len(b) THEN a[i] * b[k + 1 - i] ELSE 0)
         + Coef(a, b, k, i - 1)

BigMul(a, b) ==
    IF a = <<>> \/ b = <<>> THEN <<>>
    ELSE Carry([k \in 1..(Len(a) + Len(b) - 1) |-> Coef(a, b, k, Len(a))], 0)

RECURSIVE Trim(_)
Trim(s) == IF s # <<>> /\ s[Len(s)] = 0 THEN Trim(SubSeq(s, 1, Len(s) - 1)) ELSE s

RECURSIVE LeqFrom(_, _, _)
LeqFrom(x, y, i) ==
    IF i = 0 THEN TRUE
    ELSE IF x[i] # y[i] THEN x[i] < y[i] ELSE LeqFrom(x, y, i - 1)

BigLeq(a, b) ==
    LET x == Trim(a)
        y == Trim(b)
    IN  IF Len(x) # Len(y) THEN Len(x) < Len(y) ELSE LeqFrom(x, y, Len(x))

\* 2 * counts["0"] / sum(counts.values()) - 1, times the number of shots.
Radicand(c) == 2 * c - NUM_SHOTS

IsCloseAbsoluteOnly(d) ==
    LET lo == EXACT_OVERLAP_E8 - ATOL_E8
        hi == EXACT_OVERLAP_E8 + ATOL_E8
        a2 == BigMul(Big(d), BigMul(Big(E8), Big(E8)))
    IN  /\ d >= 0
        /\ BigLeq(BigMul(BigMul(Big(lo), Big(lo)), Big(NUM_SHOTS)), a2)
        /\ BigLeq(a2, BigMul(BigMul(Big(hi), Big(hi)), Big(NUM_SHOTS)))

\* np.isclose(sqrt(d / NUM_SHOTS), exact_overlap, RTOL):
\* |a - b| <= atol + rtol * |b|, decided on the squares; a negative radicand
\* gives nan, which is close to nothing.
IsClose(d) ==
    LET tol == ATOL_E8 + (RTOL_PERCENT * EXACT_OVERLAP_E8) \div 100
        lo == EXACT_OVERLAP_E8 - tol
        hi == EXACT_OVERLAP_E8 + tol
        a2 == BigMul(Big(d), BigMul(Big(E8), Big(E8)))
    IN  /\ d >= 0
        /\ BigLeq(BigMul(BigMul(Big(lo), Big(lo)), Big(NUM_SHOTS)), a2)
        /\ BigLeq(a2, BigMul(BigMul(Big(hi), Big(hi)), Big(NUM_SHOTS)))

(***************************************************************************)
(* Running a notebook.                                                     *)
(***************************************************************************)

\* No quantum function is analysed while a notebook runs.
QIdle ==
    /\ prog = "none" /\ input = 0 /\ gates = <<>> /\ qpc = 0
    /\ amp = <<>> /\ nrm = 0 /\ gphase = 0
    /\ allocd = {} /\ released = {} /\ dirty = FALSE /\ known = TRUE
    /\ parsed_counts = <<>>

\* Measurement outcomes the execute call of the swap test may return here
\* (SpecSwap runs every outcome 0..NUM_SHOTS).
SampleCounts == {0, 49999, 59956, 59957, 60898, 62162, 62163, NUM_SHOTS}

\* Cap on the requests in flight.
MaxOutstanding == 2

NBInit ==
    /\ nb \in Notebooks
    /\ pc = 1
    /\ ns = {}
    /\ outstanding = 0
    /\ status = "running"
    /\ errkind = "none"
    /\ log = <<>>
    /\ counts0 = <<>>
    /\ radicand = <<>>
    /\ QIdle

Stmt == Script(nb)[pc]

AtStatement == status = "running" /\ pc <= Len(Script(nb))

NBDone == status = "running" /\ pc = Len(Script(nb)) + 1

NotBlocked == FALSE

\* The kernel runs one statement at a time: a call to the service returns
\* only when the answer is there.
Blocked == outstanding > 0

BindNothing(names, st) == names

\* An assignment, def or import binds its names in the namespace.
Bind(names, st) == names \cup st.binds

FailStatusSwallowed == "running"

\* An exception is caught nowhere: it ends the run.
FailStatus == "error"

Event(ev) == [i |-> pc, ev |-> ev]

\* An exception raised by the statement at pc.
Raise(kind) ==
    /\ status' = FailStatus
    /\ errkind' = kind
    /\ log' = Append(log, Event("raise"))
    /\ UNCHANGED <<nb, pc, ns, outstanding, counts0, radicand>>

Complete ==
    /\ ns' = Bind(ns, Stmt)
    /\ pc' = pc + 1
    /\ log' = Append(log, Event("local"))
    /\ UNCHANGED <<nb, outstanding, status, errkind, counts0>>

ExecLocal ==
    /\ AtStatement /\ ~Blocked /\ Stmt.kind = "local"
    /\ IF ~(Stmt.reads \subseteq ns)
       THEN Raise("name")
       ELSE IF Stmt.op = "overlap"
            THEN IF counts0[1] = 0
                 THEN Raise("key")
                 ELSE Complete /\ radicand' = <<Radicand(counts0[1])>>
            ELSE Complete /\ UNCHANGED radicand
    /\ UNCHANGED qvars

ExecAssert ==
    /\ AtStatement /\ ~Blocked /\ Stmt.kind = "assert"
    /\ IF ~(Stmt.reads \subseteq ns)
       THEN Raise("name")
       ELSE IF IsClose(radicand[1])
            THEN Complete /\ UNCHANGED radicand
            ELSE Raise("assert")
    /\ UNCHANGED qvars

SendRequest ==
    /\ AtStatement /\ ~Blocked /\ Stmt.kind = "remote"
    /\ outstanding < MaxOutstanding
    /\ IF ~(Stmt.reads \subseteq ns)
       THEN Raise("name")
       ELSE /\ outstanding' = outstanding + 1
            /\ log' = Append(log, Event("send"))
            /\ UNCHANGED <<nb, pc, ns, status, errkind, counts0, radicand>>
    /\ UNCHANGED qvars

ReceiveResponse ==
    /\ AtStatement /\ outstanding > 0 /\ Stmt.kind = "remote"
    /\ outstanding' = outstanding - 1
    /\ ns' = Bind(ns, Stmt)
    /\ pc' = pc + 1
    /\ log' = Append(log, Event("recv"))
    /\ IF nb = "swap_test" /\ Stmt.op = "execute"
       THEN \E c \in SampleCounts : counts0' = <<c>>
       ELSE UNCHANGED counts0
    /\ UNCHANGED <<nb, status, errkind, radicand>>
    /\ UNCHANGED qvars

RequestFails ==
    /\ AtStatement /\ outstanding > 0 /\ Stmt.kind = "remote"
    /\ outstanding' = outstanding - 1
    /\ status' = FailStatus
    /\ errkind' = "remote"
    /\ log' = Append(log, Event("fail"))
    /\ UNCHANGED <<nb, pc, ns, counts0, radicand>>
    /\ UNCHANGED qvars

NBNext ==
    \/ ExecLocal
    \/ ExecAssert
    \/ SendRequest
    \/ ReceiveResponse
    \/ RequestFails

SpecNB == NBInit /\ [][NBNext]_vars

(***************************************************************************)
(* Part III.  The swap-test notebook from the moment execute returned,     *)
(* for every number of shots that measured 0.                              *)
(***************************************************************************)

ExecuteIndex == CHOOSE i \in 1..Len(swap_test_notebook) : swap_test_notebook[i].op = "execute"

NamesAfter(script, k) == UNION {script[i].binds : i \in 1..k}

RECURSIVE LogAfter(_, _)
LogAfter(script, k) ==
    IF k = 0 THEN <<>>
    ELSE LogAfter(script, k - 1) \o
         (IF script[k].kind = "remote"
          THEN <<[i |-> k, ev |-> "send"], [i |-> k, ev |-> "recv"]>>
          ELSE <<[i |-> k, ev |-> "local"]>>)

SwapInit ==
    /\ nb = "swap_test"
    /\ pc = ExecuteIndex + 1
    /\ ns = NamesAfter(swap_test_notebook, ExecuteIndex)
    /\ outstanding = 0
    /\ status = "running"
    /\ errkind = "none"
    /\ log = LogAfter(swap_test_notebook, ExecuteIndex)
    /\ counts0 \in {<<c>> : c \in 0..NUM_SHOTS}
    /\ radicand = <<>>
    /\ QIdle

SwapNext ==
    \/ ExecLocal
    \/ ExecAssert

SpecSwap == SwapInit /\ [][SwapNext]_vars

(***************************************************************************)
(* Properties of the notebook runs.                                        *)
(***************************************************************************)

\* The statement an entry of the log is about.
StmtOf(k) == Script(nb)[log[k].i]

\* The entry k of the log says that a statement went through.
Completed(k) == log[k].ev \in {"local", "recv"}

\* The last statement before statement i that binds name n (0: none).
Binder(script, i, n) ==
    LET js == {j \in 1..(i - 1) : n \in script[j].binds}
    IN  IF js = {} THEN 0 ELSE CHOOSE j \in js : \A h \in js : h <= j

\* An earlier entry of the log says that a statement with one of these
\* operations went through.
ReturnedBefore(k, ops) ==
    \E h \in 1..(k - 1) : Completed(h) /\ StmtOf(h).op \in ops

\* C7: in every notebook the remote calls happen one at a time and in program
\* order: at most one request is outstanding, a request is answered before
\* anything else happens, the statements run in the order of the script,
\* synthesize is sent only after create_model returned, show and execute only
\* after synthesize returned, and a statement reads the result of execute only
\* after execute returned.
C7_RemoteCallsInOrder ==
    /\ outstanding <= 1
    /\ \A k \in 1..Len(log) :
          /\ k > 1 => log[k - 1].i <= log[k].i
          /\ (k > 1 /\ Completed(k - 1)) => log[k - 1].i < log[k].i
          /\ log[k].ev = "send" =>
                IF k = Len(log)
                THEN outstanding = 1 /\ pc = log[k].i
                ELSE log[k + 1].i = log[k].i /\ log[k + 1].ev \in {"recv", "fail"}
          /\ log[k].ev \in {"recv", "fail"} =>
                k > 1 /\ log[k - 1] = [i |-> log[k].i, ev |-> "send"]
          /\ (log[k].ev = "send" /\ StmtOf(k).op = "synthesize") =>
                ReturnedBefore(k, {"create_model", "construct_finance_model"})
          /\ (log[k].ev = "send" /\ StmtOf(k).op \in {"show", "execute"}) =>
                ReturnedBefore(k, {"synthesize"})
          /\ (StmtOf(k).reads \cap {"res", "results"} # {}) =>
                ReturnedBefore(k, {"execute"})
          /\ \A n \in StmtOf(k).reads :
                \E h \in 1..(k - 1) : Completed(h) /\ n \in StmtOf(h).binds

\* The option pricing notebook ran to its end: synthesize, show and execute
\* were each sent and answered.
C7_Witness ==
    /\ nb = "option_pricing"
    /\ NBDone
    /\ Cardinality({k \in 1..Len(log) : log[k].ev = "recv"}) = 3

\* C8: a failing remote call is neither retried nor recovered from: it ends
\* the run, the failure is the last thing that happened, no request is sent
\* twice, and nothing a failed call would have bound is in the namespace
\* unless an earlier statement bound it.
C8_FailureEndsRun ==
    /\ \A k \in 1..Len(log) :
          /\ log[k].ev \in {"fail", "raise"} => (k = Len(log) /\ status = "error")
          /\ \A h \in 1..Len(log) :
                (log[k] = log[h] /\ log[k].ev = "send") => k = h
    /\ status = "error" =>
          /\ log # <<>>
          /\ log[Len(log)] \in {[i |-> pc, ev |-> "fail"], [i |-> pc, ev |-> "raise"]}
          /\ errkind # "none"
          /\ outstanding = 0
          /\ \A n \in Stmt.binds : n \in ns => Binder(Script(nb), pc, n) > 0
    /\ status # "error" => errkind = "none"

\* The execute call of the QMCI notebook failed, and that of the swap test:
\* the runs stopped there.
C8_Witness ==
    /\ nb \in {"qmci", "swap_test"}
    /\ status = "error"
    /\ errkind = "remote"
    /\ Stmt.op = "execute"
    /\ "res" \notin ns

\* The arrays of probabilities and amplitudes and the measurement results.
LocalData == {"probabilities", "amps1", "amps2", "phases_counts", "res", "results"}

\* C9 as stated: every local variable is defined and consumed within one
\* cell, no cell reads a value bound by an earlier cell.
C9_ConfinedToOneCell ==
    \A k \in 1..Len(log) :
       \A n \in StmtOf(k).reads \cap LocalData :
          /\ Binder(Script(nb), log[k].i, n) > 0
          /\ Script(nb)[Binder(Script(nb), log[k].i, n)].cell = StmtOf(k).cell

\* C9, amended: the namespace of the kernel outlives the cells. Every local
\* variable a statement reads was bound by a statement of the same or of an
\* earlier cell that went through, every name bound so far is still in the
\* namespace, and no statement fails on an unbound name.
C9_BoundBySameOrEarlierCell ==
    /\ errkind # "name"
    /\ ns = UNION {StmtOf(h).binds : h \in {h \in 1..Len(log) : Completed(h)}}
    /\ \A k \in 1..Len(log) :
          \A n \in StmtOf(k).reads \cap LocalData :
             /\ Binder(Script(nb), log[k].i, n) > 0
             /\ Script(nb)[Binder(Script(nb), log[k].i, n)].cell <= StmtOf(k).cell
             /\ \E h \in 1..(k - 1) :
                   Completed(h) /\ log[h].i = Binder(Script(nb), log[k].i, n)

\* The QMCI notebook ran to its end: its last cell read probabilities, bound
\* eleven cells earlier, and phases_counts, bound two cells earlier.
C9_Witness ==
    /\ nb = "qmci"
    /\ NBDone
    /\ LET last == Len(qmci_notebook)
       IN  /\ {"probabilities", "phases_counts"} \subseteq qmci_notebook[last].reads
           /\ qmci_notebook[Binder(qmci_notebook, last, "probabilities")].cell
                 = qmci_notebook[last].cell - 11
           /\ qmci_notebook[Binder(qmci_notebook, last, "phases_counts")].cell
                 = qmci_notebook[last].cell - 2

NUM_QUBITS == 3

ST_STATE1 == 0
ST_STATE2 == NUM_QUBITS
ST_TEST == 2 * NUM_QUBITS

\* The amplitude vectors tried have their nonzero entries among the basis
\* states 0, 5, 2, 7, ... (every qubit of the register takes both values).
MaxSupportIndex == 3

SupportIndices == {(5 * j) % Pow2(NUM_QUBITS) : j \in 0..MaxSupportIndex}

\* A vector as the function from its nonzero entries to their values.
Sparse(f) == [k \in {j \in DOMAIN f : f[j] # 0} |-> f[k]]

\* Real amplitude vectors, not normalised (amps1 and amps2 of the notebook
\* are real; the norm is divided out where a probability is formed).
AmplitudeVectors ==
    {Sparse(f) : f \in [SupportIndices -> {-1, 0, 1}]} \ {<<>>}

\* A gate on two qubits q and q2 under the control qubit c.
Op3(g, c, q, q2) ==
    [g |-> g, q |-> q, n |-> 1, p |-> "", inv |-> FALSE,
     role |-> <<>>, path |-> <<>>, c |-> c, q2 |-> q2]

swap_test_no_final_H(state1, state2, test, n) ==
    Call("swap_test",
         <<Op("allocate", test, 1, ""), Op("H", test, 1, "")>>
         \o [i \in 1..n |-> Op3("CSWAP", test, state1 + i - 1, state2 + i - 1)])

\* swap_test: an H gate on the test qubit, a controlled-SWAP for each of
\* the qubits of the two states, and a final H gate on the test qubit.
swap_test(state1, state2, test, n) ==
    Call("swap_test",
         <<Op("allocate", test, 1, ""), Op("H", test, 1, "")>>
         \o [i \in 1..n |-> Op3("CSWAP", test, state1 + i - 1, state2 + i - 1)]
         \o <<Op("H", test, 1, "")>>)

swap_test_main ==
    Call("main",
         <<Op("prepare_amplitudes", ST_STATE1, NUM_QUBITS, "amps1"),
           Op("prepare_amplitudes", ST_STATE2, NUM_QUBITS, "amps2")>>
         \o swap_test(ST_STATE1, ST_STATE2, ST_TEST, NUM_QUBITS))

\* The vector a with the fresh n-qubit register at q0 holding the vector v.
Tensor(a, v, q0, n) ==
    [k \in {j + i * Pow2(q0) : j \in DOMAIN a, i \in DOMAIN v} |->
        a[k - RegVal(k, q0, n) * Pow2(q0)] * v[RegVal(k, q0, n)]]

\* The basis state k with the values of qubits q and q2 exchanged.
SwapBits(k, q, q2) ==
    IF Bit(k, q) = Bit(k, q2) THEN k ELSE Flip(Flip(k, q), q2)

\* Controlled-SWAP: exchange q and q2 on the basis states with c at 1.
GateCSwap(a, c, q, q2) ==
    LET to(j) == IF Bit(j, c) = 1 THEN SwapBits(j, q, q2) ELSE j
    IN  [k \in {to(j) : j \in DOMAIN a} |-> a[to(k)]]

STInit ==
    /\ prog = "swap_test_main"
    /\ input \in AmplitudeVectors \X AmplitudeVectors
    /\ gates = swap_test_main
    /\ qpc = 1
    /\ amp = Basis(0)
    /\ nrm = 0
    /\ gphase = 0
    /\ allocd = {}
    /\ released = {}
    /\ dirty = FALSE
    /\ known = TRUE
    /\ parsed_counts = <<>>
    /\ NBIdle

\* prepare_amplitudes(amps, 0.0, state): state is allocated holding amps.
StepPrepareAmplitudes ==
    /\ Running /\ Cur.g = "prepare_amplitudes"
    /\ Qubits(Cur) \cap allocd = {}
    /\ allocd' = allocd \cup Qubits(Cur)
    /\ amp' = Tensor(amp, IF Cur.p = "amps1" THEN input[1] ELSE input[2],
                     Cur.q, Cur.n)
    /\ Advance
    /\ UNCHANGED <<nrm, gphase, released, dirty, known>>

StepCSwap ==
    /\ Running /\ Cur.g = "CSWAP" /\ {Cur.c, Cur.q, Cur.q2} \subseteq allocd
    /\ amp' = GateCSwap(amp, Cur.c, Cur.q, Cur.q2)
    /\ Advance
    /\ UNCHANGED <<nrm, gphase, allocd, released, dirty, known>>

STNext ==
    \/ StepPrepareAmplitudes
    \/ StepAllocate
    \/ StepH
    \/ StepCSwap

SpecST == STInit /\ [][STNext]_vars

RECURSIVE SumOver(_, _)
\* Sum of f[k] over the k of D.
SumOver(f, D) ==
    IF D = {} THEN 0
    ELSE LET k == CHOOSE j \in D : TRUE IN f[k] + SumOver(f, D \ {k})

\* Squared norm of a sparse vector.
NormSq(a) == SumOver([k \in DOMAIN a |-> a[k] * a[k]], DOMAIN a)

\* Inner product of two real sparse vectors.
Inner(a, b) ==
    SumOver([k \in DOMAIN a \cap DOMAIN b |-> a[k] * b[k]], DOMAIN a \cap DOMAIN b)

\* Squared weight of the basis states of a that have qubit q at value v.
WeightAt(a, q, v) ==
    LET D == {k \in DOMAIN a : Bit(k, q) = v}
    IN  SumOver([k \in D |-> a[k] * a[k]], D)

\* C11: after the swap test the test qubit measures 0 with probability
\* (1 + |<psi1|psi2>|^2) / 2: with P0 = W0 / W, the norms N1, N2 and the
\* inner product ip of the inputs, 2 * W0 * N1 * N2 = W * (N1 * N2 + ip^2);
\* the probability is 1 for identical states (up to the sign), 1/2 for
\* orthogonal states and never below 1/2.
C11_SwapTestProbability ==
    (prog = "swap_test_main" /\ Done) =>
        LET N1 == NormSq(input[1])
            N2 == NormSq(input[2])
            ip == Inner(input[1], input[2])
            W0 == WeightAt(amp, ST_TEST, 0)
            W  == NormSq(amp)
        IN  /\ W = N1 * N2 * Pow2(nrm)
            /\ 2 * W0 * N1 * N2 = W * (N1 * N2 + ip * ip)
            /\ 2 * W0 >= W
            /\ (input[2] = input[1] \/ input[2] = GateNeg(input[1])) => W0 = W
            /\ ip = 0 => 2 * W0 = W

\* The swap test ran on two states that are neither orthogonal nor equal:
\* the probability of measuring 0 is strictly between 1/2 and 1.
C11_Witness ==
    /\ prog = "swap_test_main" /\ Done
    /\ Inner(input[1], input[2]) # 0
    /\ 2 * WeightAt(amp, ST_TEST, 0) > NormSq(amp)
    /\ WeightAt(amp, ST_TEST, 0) < NormSq(amp)

(***************************************************************************)
(* Part V.  Phase estimation (SpecQPE).                                    *)
(*                                                                         *)
(* Amplitudes are integers of the cyclotomic field of the 8th roots of     *)
(* unity: <<a0, a1, a2, a3>> is a0 + a1*w + a2*w^2 + a3*w^3 with           *)
(* w = e^(i*pi/4), so w^4 = -1; 1, w, w^2, w^3 are linearly independent    *)
(* over the integers. Angles are counted in units of pi/4.                 *)
(***************************************************************************)

CZero == <<0, 0, 0, 0>>

COne == <<1, 0, 0, 0>>

CAdd(x, y) == [i \in 1..4 |-> x[i] + y[i]]

CSub(x, y) == [i \in 1..4 |-> x[i] - y[i]]

\* w * x
CMulOmega(x) == <<0 - x[4], x[1], x[2], x[3]>>

RECURSIVE CRot(_, _)
\* w^e * x
CRot(x, e) == IF e % 8 = 0 THEN x ELSE CRot(CMulOmega(x), (e % 8) - 1)

CAmp(a, k) == IF k \in DOMAIN a THEN a[k] ELSE CZero

CBasis(k) == [j \in {k} |-> COne]

\* Unnormalised Hadamard on qubit q.
GateHC(a, q) ==
    LET D == DOMAIN a \cup {Flip(j, q) : j \in DOMAIN a}
        v(k) == IF Bit(k, q) = 0
                THEN CAdd(CAmp(a, k), CAmp(a, Flip(k, q)))
                ELSE CSub(CAmp(a, Flip(k, q)), CAmp(a, k))
    IN  [k \in {j \in D : v(j) # CZero} |-> v(k)]

RECURSIVE XorInt(_, _, _)
\* Bitwise exclusive or of two n-bit integers.
XorInt(x, y, n) ==
    IF n = 0 THEN 0
    ELSE ((x + y) % 2) + 2 * XorInt(x \div 2, y \div 2, n - 1)

\* inplace_prepare_int(v, reg): X on the qubits of reg where v has a 1.
GatePrepareInt(a, q0, n, v) ==
    LET to(j) == j + Pow2(q0) * (XorInt(RegVal(j, q0, n), v, n) - RegVal(j, q0, n))
    IN  [k \in {to(j) : j \in DOMAIN a} |-> a[to(k)]]

\* Example 1: CRZ(pi, state[0], state[1]); pi is 4 units of pi/4.
CRZ_THETA == 4

\* state of the examples is qubits 0 and 1, phase the qubits after it.
QPE_STATE == 0
QPE_STATE_SIZE == 2
QPE_PHASE == QPE_STATE + QPE_STATE_SIZE

\* QPE_RESOLUTION = 2
QPE_RESOLUTION == 2

\* QMCI: n_qpe = 3; phase is the qubits after io and ind.
n_qpe == 3
QMCI_PHASE == sp_num_qubits + 1

CRZPhaseNegated(theta, ctrl, target, k) ==
    IF Bit(k, ctrl) = 0 THEN 0
    ELSE IF Bit(k, target) = 1 THEN 0 - (theta \div 2) ELSE theta \div 2

\* CRZ(theta, ctrl, target) is diag(1, e^(-i*theta/2), 1, e^(i*theta/2)):
\* the angle it turns the basis state k by.
CRZPhase(theta, ctrl, target, k) ==
    IF Bit(k, ctrl) = 0 THEN 0
    ELSE IF Bit(k, target) = 1 THEN theta \div 2 ELSE 0 - (theta \div 2)

\* HAMILTONIAN, coefficients in units of 1/8.
HAMILTONIAN ==
    <<[pauli |-> <<"I", "Z">>, coefficient |-> 0 - 1],
      [pauli |-> <<"Z", "I">>, coefficient |-> 0 - 2],
      [pauli |-> <<"I", "I">>, coefficient |-> 3]>>

\* Eigenvalue of a Pauli I or Z on a qubit at value b.
PauliEigenvalue(pl, b) == IF pl = "Z" /\ b = 1 THEN 0 - 1 ELSE 1

RECURSIVE PauliStringFirstIsQubit0(_, _, _)
PauliStringFirstIsQubit0(ps, q0, k) ==
    IF ps = <<>> THEN 1
    ELSE PauliEigenvalue(ps[1], Bit(k, q0))
         * PauliStringFirstIsQubit0(Tail(ps), q0 + 1, k)

RECURSIVE PauliString(_, _, _)
\* Eigenvalue of a Pauli string on the basis state k of the register at q0:
\* the last Pauli of the list acts on qubit 0 of the register
\* (H = -1/8 Z_0 I_1 - 1/4 I_0 Z_1 + 3/8 I_0 I_1).
PauliString(ps, q0, k) ==
    IF ps = <<>> THEN 1
    ELSE PauliEigenvalue(ps[Len(ps)], Bit(k, q0))
         * PauliString(SubSeq(ps, 1, Len(ps) - 1), q0 + 1, k)

RECURSIVE HamiltonianDiagonal(_, _, _)
\* Diagonal entry of a Hamiltonian of I and Z terms at the basis state k,
\* in units of 1/8.
HamiltonianDiagonal(h, q0, k) ==
    IF h = <<>> THEN 0
    ELSE h[1].coefficient * PauliString(h[1].pauli, q0, k)
         + HamiltonianDiagonal(Tail(h), q0, k)

\* suzuki_trotter(HAMILTONIAN, evolution_coefficient=-2*pi*power, order=1,
\* repetitions=1, qbv=state) is exp(2*pi*i*power*H), exact for a diagonal H:
\* the angle it turns the basis state k by, 2*pi*power*H[k] (in units of
\* pi/4: power times the diagonal entry in units of 1/8).
SuzukiTrotterPhase(h, power, q0, k) == power * HamiltonianDiagonal(h, q0, k)

\* The angle the unitary u, applied power times, turns the basis state k by.
UnitaryPhase(u, power, k) ==
    CASE u = "CRZ" -> power * CRZPhase(CRZ_THETA, QPE_STATE, QPE_STATE + 1, k)
      [] u = "suzuki_trotter" ->
            SuzukiTrotterPhase(HAMILTONIAN, power, QPE_STATE, k)

\* control(c, <unitary u to the power>).
GateControlledPower(a, c, u, power) ==
    [k \in DOMAIN a |->
        IF Bit(k, c) = 1 THEN CRot(a[k], UnitaryPhase(u, power, k) % 8) ELSE a[k]]

RECURSIVE CSum(_, _)
CSum(f, D) ==
    IF D = {} THEN CZero
    ELSE LET k == CHOOSE j \in D : TRUE IN CAdd(f[k], CSum(f, D \ {k}))

GateQFT(a, q0, m) ==
    LET N == Pow2(m)
        rest(k) == k - RegVal(k, q0, m) * Pow2(q0)
        D == {rest(k) + j * Pow2(q0) : k \in DOMAIN a, j \in 0..(N - 1)}
        v(k) == CSum([x \in 0..(N - 1) |->
                        CRot(CAmp(a, rest(k) + x * Pow2(q0)),
                             (RegVal(k, q0, m) * x * (8 \div N)) % 8)],
                     0..(N - 1))
    IN  [k \in {j \in D : v(j) # CZero} |-> v(k)]

\* invert(qft(reg)) on the m-qubit register at q0, unnormalised:
\* |x> -> sum over j of e^(-2*pi*i*j*x/2^m) |j>.
GateInvQFT(a, q0, m) ==
    LET N == Pow2(m)
        rest(k) == k - RegVal(k, q0, m) * Pow2(q0)
        D == {rest(k) + j * Pow2(q0) : k \in DOMAIN a, j \in 0..(N - 1)}
        v(k) == CSum([x \in 0..(N - 1) |->
                        CRot(CAmp(a, rest(k) + x * Pow2(q0)),
                             (0 - RegVal(k, q0, m) * x * (8 \div N)) % 8)],
                     0..(N - 1))
    IN  [k \in {j \in D : v(j) # CZero} |-> v(k)]

\* control(phase[index], <unitary u to the power 2**index>)
OpControlledPower(c, u, power) ==
    [g |-> "control_power", q |-> c, n |-> 1, p |-> u, inv |-> FALSE,
     role |-> <<>>, path |-> <<>>, power |-> power]

\* inplace_prepare_int(v, reg)
OpPrepareInt(q, n, v) ==
    [g |-> "inplace_prepare_int", q |-> q, n |-> n, p |-> "", inv |-> FALSE,
     role |-> <<>>, path |-> <<>>, v |-> v]

\* qpe_flexible(unitary_with_power, phase): H on every qubit of phase, the
\* unitary to the power 2**index controlled on phase[index], then the
\* inverse Fourier transform of phase.
qpe_flexible(u, phase, m) ==
    Call("qpe_flexible",
         [i \in 1..m |-> Op("H", phase + i - 1, 1, "")]
         \o [i \in 1..m |-> OpControlledPower(phase + i - 1, u, Pow2(i - 1))]
         \o invert(<<Op("qft", phase, m, "")>>))

\* qpe(unitary, phase): qpe_flexible with the naive power of the unitary.
qpe(u, phase, m) == Call("qpe", qpe_flexible(u, phase, m))

\* Example 1.
qpe_example_1 ==
    Call("main",
         <<Op("allocate", QPE_STATE, QPE_STATE_SIZE, ""),
           Op("allocate", QPE_PHASE, QPE_RESOLUTION, ""),
           OpPrepareInt(QPE_STATE, QPE_STATE_SIZE, 3)>>
         \o qpe("CRZ", QPE_PHASE, QPE_RESOLUTION))

\* Example 2.
qpe_example_2 ==
    Call("main",
         <<Op("allocate", QPE_STATE, QPE_STATE_SIZE, ""),
           Op("allocate", QPE_PHASE, QPE_RESOLUTION, "")>>
         \o hadamard_transform(QPE_STATE, QPE_STATE_SIZE)
         \o qpe_flexible("suzuki_trotter", QPE_PHASE, QPE_RESOLUTION))

\* main of the QMCI notebook with qpe.
qmci_qpe_main ==
    Call("main",
         qmci_main_allocate
         \o state_loading(QMCI_IND)
         \o <<Op("allocate", QMCI_PHASE, n_qpe, "")>>
         \o qpe("my_grover_operator", QMCI_PHASE, n_qpe))

QPEPrograms == {"qpe_example_1", "qpe_example_2", "qmci_qpe_main"}

QPEGates(p) ==
    CASE p = "qpe_example_1" -> qpe_example_1
      [] p = "qpe_example_2" -> qpe_example_2
      [] p = "qmci_qpe_main" -> qmci_qpe_main

\* The phase register of a program: where it is, and the arguments of its
\* allocate_num(size, is_signed, fraction_digits, phase).
PhaseNum(p) ==
    IF p = "qmci_qpe_main"
    THEN [q |-> QMCI_PHASE, size |-> n_qpe, is_signed |-> FALSE,
          fraction_digits |-> n_qpe]
    ELSE [q |-> QPE_PHASE, size |-> QPE_RESOLUTION, is_signed |-> FALSE,
          fraction_digits |-> QPE_RESOLUTION]

ParseNumSigned(v, size, is_signed, fraction_digits) ==
    <<IF v >= Pow2(size - 1) THEN v - Pow2(size) ELSE v, Pow2(fraction_digits)>>

\* The number a QNum register holding the bits v stands for, as
\* <<numerator, denominator>>.
ParseNum(v, size, is_signed, fraction_digits) ==
    <<IF is_signed /\ v >= Pow2(size - 1) THEN v - Pow2(size) ELSE v,
      Pow2(fraction_digits)>>

\* One entry of parsed_counts for the measured basis state k: the bits of
\* the outputs of main and what they parse to. The examples output state
\* and phase, the QMCI main only phase.
Outcome(p, k) ==
    LET ph == PhaseNum(p)
        phase == ParseNum(RegVal(k, ph.q, ph.size), ph.size, ph.is_signed,
                          ph.fraction_digits)
    IN  IF p = "qmci_qpe_main"
        THEN [bitstring |-> RegVal(k, ph.q, ph.size), phase |-> phase]
        ELSE [bitstring |-> RegVal(k, QPE_STATE, QPE_STATE_SIZE + ph.size),
              state |-> RegVal(k, QPE_STATE, QPE_STATE_SIZE),
              phase |-> phase]

\* One more shot with outcome o.
Count(pcs, o) ==
    [x \in DOMAIN pcs \cup {o} |->
        (IF x \in DOMAIN pcs THEN pcs[x] ELSE 0) + (IF x = o THEN 1 ELSE 0)]

Shots(pcs) == SumOver(pcs, DOMAIN pcs)

\* Number of shots of an execution.
MaxShots == 4

QPEInit ==
    /\ prog \in QPEPrograms
    /\ input = 0
    /\ gates = QPEGates(prog)
    /\ qpc = 1
    /\ amp = CBasis(0)
    /\ nrm = 0
    /\ gphase = 0
    /\ allocd = {}
    /\ released = {}
    /\ dirty = FALSE
    /\ known = TRUE
    /\ parsed_counts = <<>>
    /\ NBIdle

StepPrepareInt ==
    /\ Running /\ Cur.g = "inplace_prepare_int" /\ Qubits(Cur) \subseteq allocd
    /\ amp' = GatePrepareInt(amp, Cur.q, Cur.n, Cur.v)
    /\ Advance
    /\ UNCHANGED <<nrm, gphase, allocd, released, dirty, known>>

StepHC ==
    /\ Running /\ Cur.g = "H" /\ Cur.q \in allocd
    /\ amp' = GateHC(amp, Cur.q)
    /\ nrm' = nrm + 1
    /\ Advance
    /\ UNCHANGED <<gphase, allocd, released, dirty, known>>

StepControlledPower ==
    /\ Running /\ Cur.g = "control_power" /\ Cur.q \in allocd
    /\ amp' = GateControlledPower(amp, Cur.q, Cur.p, Cur.power)
    /\ Advance
    /\ UNCHANGED <<nrm, gphase, allocd, released, dirty, known>>

StepInvQFT ==
    /\ Running /\ Cur.g = "qft" /\ Cur.inv /\ Qubits(Cur) \subseteq allocd
    /\ amp' = GateInvQFT(amp, Cur.q, Cur.n)
    /\ nrm' = nrm + Cur.n
    /\ Advance
    /\ UNCHANGED <<gphase, allocd, released, dirty, known>>

\* The basis states a measurement can give: those of the state vector, or
\* any at all once the vector is not tracked.
Measurable ==
    IF known THEN DOMAIN amp ELSE 0..(Pow2(Cardinality(allocd)) - 1)

\* One shot of execute(qprog): the outputs are measured.
StepSample ==
    /\ Done /\ Shots(parsed_counts) < MaxShots
    /\ \E k \in Measurable : parsed_counts' = Count(parsed_counts, Outcome(prog, k))
    /\ UNCHANGED <<prog, input, gates, qpc, amp, nrm, gphase, allocd, released,
                   dirty, known, nbvars>>

QPENext ==
    \/ StepAllocate
    \/ StepPrepareInt
    \/ StepHC
    \/ StepControlledPower
    \/ StepInvQFT
    \/ StepExternal
    \/ StepSample

SpecQPE == QPEInit /\ [][QPENext]_vars

\* The entries of parsed_counts.
Outcomes == DOMAIN parsed_counts

\* C12: QPE Example 1 measures phase 1/4 (the register reads binary 01) and
\* state 3 in every shot.
C12_Example1Phase ==
    prog = "qpe_example_1" =>
        /\ Done =>
              \A k \in DOMAIN amp :
                 /\ RegVal(k, QPE_PHASE, QPE_RESOLUTION) = 1
                 /\ Bit(k, QPE_PHASE) = 1 /\ Bit(k, QPE_PHASE + 1) = 0
                 /\ RegVal(k, QPE_STATE, QPE_STATE_SIZE) = 3
        /\ \A o \in Outcomes : o.phase = <<1, 4>> /\ o.state = 3

\* Every shot of Example 1 was taken; all gave state 3 and phase 1/4.
C12_Witness ==
    /\ prog = "qpe_example_1"
    /\ Done
    /\ Outcomes # {}
    /\ \A o \in Outcomes : parsed_counts[o] = MaxShots /\ o.phase = <<1, 4>>

\* C13: the HAMILTONIAN of Example 2 is diag(0, 1/4, 1/2, 3/4); every shot
\* has phase = state/4, and each of the four pairs can be measured.
C13_Example2Phases ==
    /\ \A s \in 0..3 : HamiltonianDiagonal(HAMILTONIAN, QPE_STATE, s) = 2 * s
    /\ prog = "qpe_example_2" =>
          /\ Done =>
                {<<RegVal(k, QPE_STATE, QPE_STATE_SIZE),
                   RegVal(k, QPE_PHASE, QPE_RESOLUTION)>> : k \in DOMAIN amp}
                   = {<<s, s>> : s \in 0..3}
          /\ \A o \in Outcomes : o.state \in 0..3 /\ o.phase = <<o.state, 4>>

\* Four shots of Example 2 gave the four pairs (state, state/4).
C13_Witness ==
    /\ prog = "qpe_example_2"
    /\ Done
    /\ {<<o.state, o.phase>> : o \in Outcomes} = {<<s, <<s, 4>>>> : s \in 0..3}

RECURSIVE BitSum(_, _, _)
\* sum over i < m of lambda_i * 2^i for the bits lambda of b from bit q on.
BitSum(b, q, m) ==
    IF m = 0 THEN 0 ELSE Bit(b, q) + 2 * BitSum(b, q + 1, m - 1)

\* C14: the phase a shot reports is (1/2^m) * sum_i lambda_i * 2^i for the
\* bits of the phase register, a number k/2^m with 0 <= k < 2^m, with
\* m = 2 in the QPE examples and m = 3 in QMCI.
C14_PhaseInUnitInterval ==
    \A o \in Outcomes :
       LET m == IF prog = "qmci_qpe_main" THEN 3 ELSE 2
           first == IF prog = "qmci_qpe_main" THEN 0 ELSE QPE_STATE_SIZE
       IN  /\ o.phase[2] = 2 ^ m
           /\ o.phase[1] = BitSum(o.bitstring, first, m)
           /\ 0 <= o.phase[1] /\ o.phase[1] < o.phase[2]

\* The QMCI run reported the largest phase, 7/8, and Example 2 its largest, 3/4.
C14_Witness ==
    \/ prog = "qmci_qpe_main" /\ \E o \in Outcomes : o.phase = <<7, 8>>
    \/ prog = "qpe_example_2" /\ \E o \in Outcomes : o.phase = <<3, 4>>

====
